---- MODULE Spec2Model ----
(***************************************************************************)
(* Model of burnman/eos/reciprocal_kprime.py: the reciprocal K-prime       *)
(* equation of state (Stacey and Davis, 2004).                             *)
(*                                                                         *)
(* Floating-point numbers are modelled as fixed-point numbers: the integer *)
(* n stands for n/Scale.  A float is a record [k, v] whose kind k is       *)
(* "fin" (the value v), "inf", "ninf" or "nan".  Units: pressures and      *)
(* moduli are in 1e11 Pa, volumes in 1e-5 m^3, so that the values of the   *)
(* range checks of validate_parameters are small integers.                 *)
(***************************************************************************)
EXTENDS Integers, Sequences, FiniteSets, TLC

(* ------------------------- bounds of the model ------------------------- *)

\* Fixed-point resolution: n stands for n/Scale.
Scale == 1000

\* Extra resolution (a factor) used inside log and exp.
Guard == 16

\* Largest finite magnitude, in units of 1: beyond it a float is infinite.
FMaxUnits == 2000

FMax == FMaxUnits * Scale

\* A round trip is exact, at the resolution of the model, when the pressure
\* comes back within 1/RoundTripTol of itself (plus a tenth of that in
\* absolute terms).
RoundTripTol == 20

IntLimit == 2^30

(* --------------------------- float arithmetic -------------------------- *)

F(n) == [k |-> "fin", v |-> n]

NaN == [k |-> "nan", v |-> 0]

PInf == [k |-> "inf", v |-> 0]

NInf == [k |-> "ninf", v |-> 0]

IsFin(a) == a.k = "fin"

IsNaN(a) == a.k = "nan"

Abs(n) == IF n < 0 THEN -n ELSE n

Sgn(n) == IF n < 0 THEN -1 ELSE IF n > 0 THEN 1 ELSE 0

\* Overflow of the finite range gives an infinity, as in IEEE arithmetic.
Norm(n) == IF n > FMax THEN PInf ELSE IF n < -FMax THEN NInf ELSE F(n)

\* -1, 0, 1, or 2 for NaN.
FSign(a) ==
    CASE a.k = "nan" -> 2
      [] a.k = "inf" -> 1
      [] a.k = "ninf" -> -1
      [] OTHER -> Sgn(a.v)

SignedInf(s) == IF s < 0 THEN NInf ELSE PInf

FNeg(a) ==
    CASE a.k = "nan" -> NaN
      [] a.k = "inf" -> NInf
      [] a.k = "ninf" -> PInf
      [] OTHER -> F(-a.v)

FAdd(a, b) ==
    IF IsNaN(a) \/ IsNaN(b) THEN NaN
    ELSE IF IsFin(a) /\ IsFin(b) THEN Norm(a.v + b.v)
    ELSE IF IsFin(a) THEN b
    ELSE IF IsFin(b) THEN a
    ELSE IF a.k = b.k THEN a ELSE NaN

FSub(a, b) == FAdd(a, FNeg(b))

FMul(a, b) ==
    IF IsNaN(a) \/ IsNaN(b) THEN NaN
    ELSE IF IsFin(a) /\ IsFin(b) THEN
        IF a.v = 0 \/ b.v = 0 THEN F(0)
        ELSE IF Abs(a.v) > IntLimit \div Abs(b.v)
             THEN SignedInf(Sgn(a.v) * Sgn(b.v))
             ELSE Norm(Sgn(a.v) * Sgn(b.v) * ((Abs(a.v) * Abs(b.v)) \div Scale))
    ELSE IF FSign(a) = 0 \/ FSign(b) = 0 THEN NaN
    ELSE SignedInf(FSign(a) * FSign(b))

\* Division.  (A zero Python float as divisor raises ZeroDivisionError
\* instead; the inputs of the model keep Kprime_inf and K_0 away from zero, so
\* a zero divisor is a computed numpy value, and the quotient IEEE's.)
FDiv(a, b) ==
    IF IsNaN(a) \/ IsNaN(b) THEN NaN
    ELSE IF IsFin(a) /\ IsFin(b) THEN
        IF b.v = 0 THEN (IF a.v = 0 THEN NaN ELSE SignedInf(Sgn(a.v)))
        ELSE IF Abs(a.v) > IntLimit \div Scale
             THEN SignedInf(Sgn(a.v) * Sgn(b.v))
             ELSE Norm(Sgn(a.v) * Sgn(b.v) * ((Abs(a.v) * Scale) \div Abs(b.v)))
    ELSE IF IsFin(b) THEN SignedInf(FSign(a) * (IF b.v < 0 THEN -1 ELSE 1))
    ELSE IF IsFin(a) THEN F(0)
    ELSE NaN

\* Comparisons with NaN are false.
FLt(a, b) ==
    /\ ~IsNaN(a) /\ ~IsNaN(b)
    /\ \/ a.k = "ninf" /\ b.k # "ninf"
       \/ b.k = "inf" /\ a.k # "inf"
       \/ IsFin(a) /\ IsFin(b) /\ a.v < b.v

FGt(a, b) == FLt(b, a)

FAbs(a) == IF FSign(a) = -1 THEN FNeg(a) ELSE a

\* ln 2 at resolution Scale * Guard.
Ln2G == (6931 * Scale * Guard) \div 10000

\* 2 * atanh(z) at resolution G, for 0 <= z < G/3.
Atanh2(z, G) ==
    LET z2 == (z * z) \div G
        z3 == (z * z2) \div G
        z5 == (z3 * z2) \div G
        z7 == (z5 * z2) \div G
        z9 == (z7 * z2) \div G
    IN 2 * (z + z3 \div 3 + z5 \div 5 + z7 \div 7 + z9 \div 9)

RECURSIVE LnG(_)
\* ln(v / G) at resolution G = Scale * Guard, for an integer v > 0.
LnG(v) ==
    LET G == Scale * Guard IN
    IF v >= 2 * G THEN Ln2G + LnG(v \div 2)
    ELSE IF v < G THEN LnG(2 * v) - Ln2G
    ELSE Atanh2(((v - G) * G) \div (v + G), G)

\* Rounding of a value at resolution Scale * Guard to resolution Scale.
Round(n) == IF n >= 0 THEN (2 * n + Guard) \div (2 * Guard)
            ELSE -((2 * (-n) + Guard) \div (2 * Guard))

\* np.log
FLog(a) ==
    CASE a.k = "nan" -> NaN
      [] a.k = "inf" -> PInf
      [] a.k = "ninf" -> NaN
      [] OTHER -> IF a.v < 0 THEN NaN
                  ELSE IF a.v = 0 THEN NInf
                  ELSE F(Round(LnG(a.v * Guard)))

\* exp(r / G) at resolution G, for 0 <= r < ln 2.
ExpSeries(r, G) ==
    LET r2 == (r * r) \div G
        r3 == (r2 * r) \div G
        r4 == (r3 * r) \div G
        r5 == (r4 * r) \div G
        r6 == (r5 * r) \div G
        r7 == (r6 * r) \div G
    IN G + r + r2 \div 2 + r3 \div 6 + r4 \div 24 + r5 \div 120
         + r6 \div 720 + r7 \div 5040

\* exp(t / Scale) at resolution Scale * Guard, for |t| <= 16 * Scale.
ExpG(t) ==
    LET G == Scale * Guard
        tG == t * Guard
        q == tG \div Ln2G
        e == ExpSeries(tG % Ln2G, G)
    IN IF q >= 0 THEN e * (2^q) ELSE e \div (2^(-q))

\* np.exp
FExp(a) ==
    CASE a.k = "nan" -> NaN
      [] a.k = "inf" -> PInf
      [] a.k = "ninf" -> F(0)
      [] OTHER -> IF a.v > 8 * Scale THEN PInf
                  ELSE IF a.v < -(16 * Scale) THEN F(0)
                  ELSE Norm(Round(ExpG(a.v)))

\* np.power(base, e), as C's pow: pow(x, 0) = 1, pow(+0, e > 0) = 0,
\* pow(+0, e < 0) = inf, a negative base with a fractional exponent is NaN.
FPow(base, e) ==
    IF IsFin(e) /\ e.v = 0 THEN F(Scale)
    ELSE IF IsNaN(base) \/ IsNaN(e) THEN NaN
    ELSE IF IsFin(base) /\ base.v = Scale THEN F(Scale)
    ELSE IF FSign(base) = -1 THEN NaN
    ELSE IF FSign(base) = 0 THEN (IF FSign(e) = 1 THEN F(0) ELSE PInf)
    ELSE FExp(FMul(e, FLog(base)))

One == F(Scale)

\* The value of an argument an operation does not take, and of "no result".
None == [k |-> "none", v |-> 0]

\* The sentinel 1.e99 of the heat capacities (far outside the finite range of
\* the fixed-point floats, and never used in arithmetic).
VeryLarge == [k |-> "1e99", v |-> 0]

(* ------------------------- the parameter mapping ----------------------- *)

Keys == {"V_0", "K_0", "Kprime_0", "Kprime_inf", "G_0", "Gprime_0", "P_0"}

Has(params, key) == key \in DOMAIN params

\* params[key] = value
SetItem(params, key, value) ==
    [x \in (DOMAIN params) \cup {key} |-> IF x = key THEN value ELSE params[x]]

RECURSIVE FirstMissing(_, _)
\* The first key of the sequence keys that params lacks ("" when none): the
\* key a run of lookups params[k] in that order raises KeyError for.
FirstMissing(keys, params) ==
    IF keys = <<>> THEN ""
    ELSE IF ~Has(params, Head(keys)) THEN Head(keys)
    ELSE FirstMissing(Tail(keys), params)

RECURSIVE ReadUpTo(_, _)
\* The keys looked up by such a run, the missing one included.
ReadUpTo(keys, params) ==
    IF keys = <<>> THEN {}
    ELSE IF ~Has(params, Head(keys)) THEN {Head(keys)}
    ELSE {Head(keys)} \cup ReadUpTo(Tail(keys), params)

(* ------------------------- residual functions -------------------------- *)

\* PoverK - (pressure/K_0) * (1 - Kprime_inf*PoverK)^(Kprime_0/Kprime_inf)
delta_PoverK_from_P(PoverK, pressure, K_0, Kprime_0, Kprime_inf) ==
    FSub(PoverK,
         FMul(FDiv(pressure, K_0),
              FPow(FSub(One, FMul(Kprime_inf, PoverK)),
                   FDiv(Kprime_0, Kprime_inf))))

\* log(V_0/V) + Kprime_ratio/Kprime_inf * log(1 - Kprime_inf*PoverK)
\*            + (Kprime_ratio - 1) * PoverK
delta_PoverK_from_V(PoverK, V, V_0, K_0, Kprime_0, Kprime_inf) ==
    LET Kprime_ratio == FDiv(Kprime_0, Kprime_inf) IN
    FAdd(FAdd(FLog(FDiv(V_0, V)),
              FMul(FDiv(Kprime_ratio, Kprime_inf),
                   FLog(FSub(One, FMul(Kprime_inf, PoverK))))),
         FMul(FSub(Kprime_ratio, One), PoverK))

\* The residual of a root-finding problem at the fixed-point number x: the
\* call f(x, *args) that brentq makes.
Residual(prob, x) ==
    IF prob.kind = "P"
    THEN delta_PoverK_from_P(F(x), prob.arg, prob.K_0, prob.Kprime_0,
                             prob.Kprime_inf)
    ELSE delta_PoverK_from_V(F(x), prob.arg, prob.V_0, prob.K_0,
                             prob.Kprime_0, prob.Kprime_inf)

(* ---------------------------- the root finder -------------------------- *)

\* Width, in fixed-point units, at which the bracket has converged (brentq's
\* xtol, at the resolution of the model).
XTol == 1

RECURSIVE Bisect(_, _, _, _, _, _)
\* The iteration of the bracketing root finder on [lo, hi], whose residuals
\* flo and fhi have opposite signs: halve the bracket, keeping the sign
\* change, until it is XTol wide, and return the end with the smaller
\* residual.  (Brent's method also interpolates; its iterates stay in the
\* bracket all the same.)  seen is the set of points evaluated so far.
Bisect(prob, lo, flo, hi, fhi, seen) ==
    IF hi - lo <= XTol
    THEN [status |-> "ok",
          root |-> IF FLt(FAbs(fhi), FAbs(flo)) THEN hi ELSE lo,
          evals |-> seen]
    ELSE LET mid == (lo + hi) \div 2
             fm == Residual(prob, mid)
         IN IF IsNaN(fm)
            THEN [status |-> "nan", root |-> mid, evals |-> seen \cup {mid}]
            ELSE IF FSign(fm) = 0
            THEN [status |-> "ok", root |-> mid, evals |-> seen \cup {mid}]
            ELSE IF FSign(fm) = FSign(flo)
            THEN Bisect(prob, mid, fm, hi, fhi, seen \cup {mid})
            ELSE Bisect(prob, lo, flo, mid, fm, seen \cup {mid})

\* scipy.optimize.brentq(f, a, b, args): the residual is evaluated at both
\* ends of the bracket first; equal signs there raise ValueError, a zero
\* residual at an end returns that end.
BrentqRun(prob, a, b) ==
    LET fa == Residual(prob, a)
        fb == Residual(prob, b)
    IN IF IsNaN(fa) \/ IsNaN(fb)
       THEN [status |-> "nan", root |-> a, evals |-> {a, b}]
       ELSE IF FSign(fa) * FSign(fb) > 0
       THEN [status |-> "sign", root |-> a, evals |-> {a, b}]
       ELSE IF FSign(fa) = 0
       THEN [status |-> "ok", root |-> a, evals |-> {a, b}]
       ELSE IF FSign(fb) = 0
       THEN [status |-> "ok", root |-> b, evals |-> {a, b}]
       ELSE Bisect(prob, a, fa, b, fb, {a, b})

\* What a call of brentq can do.  A NaN residual has no defined outcome: the
\* root finder raises ValueError or returns some point of the bracket,
\* depending on its version.
Brentq(prob, a, b) ==
    LET r == BrentqRun(prob, a, b) IN
    IF r.status = "nan"
    THEN {[status |-> "nan", root |-> a, evals |-> r.evals]}
         \cup {[status |-> "ok", root |-> x, evals |-> r.evals \cup {x}] :
                 x \in {a, (a + b) \div 2, b}}
    ELSE {r}

\* The bracket of both wrappers: -1. and 1./params['Kprime_inf'].
BracketLo == -Scale

BracketHi(params) == FDiv(One, params["Kprime_inf"]).v

\* Faulty variant of _PoverK_from_P: the bracket is [-1., 1.].
PoverK_from_P_wide(pressure, params) ==
    Brentq([kind |-> "P", arg |-> pressure, V_0 |-> None,
            K_0 |-> params["K_0"], Kprime_0 |-> params["Kprime_0"],
            Kprime_inf |-> params["Kprime_inf"]],
           BracketLo, Scale)

\* _PoverK_from_P(pressure, params): the outcomes of
\* opt.brentq(_delta_PoverK_from_P, -1., 1./params['Kprime_inf'], args=args)
PoverK_from_P(pressure, params) ==
    Brentq([kind |-> "P", arg |-> pressure, V_0 |-> None,
            K_0 |-> params["K_0"], Kprime_0 |-> params["Kprime_0"],
            Kprime_inf |-> params["Kprime_inf"]],
           BracketLo, BracketHi(params))

\* _PoverK_from_V(volume, params): the outcomes of
\* opt.brentq(_delta_PoverK_from_V, -1., 1./params['Kprime_inf'], args=args)
PoverK_from_V(volume, params) ==
    Brentq([kind |-> "V", arg |-> volume, V_0 |-> params["V_0"],
            K_0 |-> params["K_0"], Kprime_0 |-> params["Kprime_0"],
            Kprime_inf |-> params["Kprime_inf"]],
           BracketLo, BracketHi(params))

(* ------------------------- outcomes of a call -------------------------- *)

\* The root finder was not run.
NoSolve == [status |-> "none", root |-> 0, evals |-> {}]

\* What a call did: status "ok" with its value, or the exception raised
\* ("KeyError" with the key, "ValueError" from the root finder); the keys of
\* the mapping it read and, from the run o of the root finder it made (if
\* any), the points where the residual was evaluated and the PoverK returned.
Outcome(status, err, value, reads, o) ==
    [status |-> status, err |-> err, value |-> value, reads |-> reads,
     evals |-> o.evals,
     solves |-> IF o.status = "none" THEN 0 ELSE 1,
     root |-> IF o.status = "ok" THEN F(o.root) ELSE None]

Returned(value, reads, o) == Outcome("ok", "", value, reads, o)

RaisedKeyError(key, reads, o) == Outcome("KeyError", key, None, reads, o)

RaisedValueError(reads, o) == Outcome("ValueError", "", None, reads, o)

(* ------------------------ derived scalar properties -------------------- *)

\* K_0 * (1 - Kprime_inf*PoverK)^(-Kprime_0/Kprime_inf)
BulkModulusValue(PoverK, params) ==
    FMul(params["K_0"],
         FPow(FSub(One, FMul(params["Kprime_inf"], PoverK)),
              FDiv(FNeg(params["Kprime_0"]), params["Kprime_inf"])))

\* bulk_modulus(pressure, params)
bulk_modulus(pressure, params) ==
    LET keys == <<"K_0", "Kprime_0", "Kprime_inf">>
        miss == FirstMissing(keys, params)
        reads == ReadUpTo(keys, params)
    IN IF miss # "" THEN {RaisedKeyError(miss, reads, NoSolve)}
       ELSE {IF o.status # "ok" THEN RaisedValueError(reads, o)
             ELSE Returned(BulkModulusValue(F(o.root), params), reads, o) :
             o \in PoverK_from_P(pressure, params)}

\* Faulty variant of shear_modulus: return params['G_0'].
shear_modulus_from_G_0(pressure, params) ==
    IF Has(params, "G_0")
    THEN {Returned(params["G_0"], {"G_0"}, NoSolve)}
    ELSE {RaisedKeyError("G_0", {"G_0"}, NoSolve)}

\* shear_modulus(pressure, params): return 0.
shear_modulus(pressure, params) == {Returned(F(0), {}, NoSolve)}

(* ------------------------------ class RKprime -------------------------- *)

\* V_0 * exp(Kprime_ratio/Kprime_inf * log(1 - Kprime_inf*PoverK)
\*           + (Kprime_ratio - 1) * PoverK)
VolumeValue(PoverK, params) ==
    LET Kprime_ratio == FDiv(params["Kprime_0"], params["Kprime_inf"]) IN
    FMul(params["V_0"],
         FExp(FAdd(FMul(FDiv(Kprime_ratio, params["Kprime_inf"]),
                        FLog(FSub(One, FMul(params["Kprime_inf"], PoverK)))),
                   FMul(FSub(Kprime_ratio, One), PoverK))))

\* RKprime.volume(pressure, temperature, params)
volume(pressure, temperature, params) ==
    LET keys == <<"Kprime_0", "Kprime_inf", "K_0">>
        miss == FirstMissing(keys, params)
        reads == ReadUpTo(keys, params)
    IN IF miss # "" THEN {RaisedKeyError(miss, reads, NoSolve)}
       ELSE {IF o.status # "ok" THEN RaisedValueError(reads, o)
             ELSE IF ~Has(params, "V_0")
             THEN RaisedKeyError("V_0", reads \cup {"V_0"}, o)
             ELSE Returned(VolumeValue(F(o.root), params),
                           reads \cup {"V_0"}, o) :
             o \in PoverK_from_P(pressure, params)}

\* K_0 * PoverK * (1 - Kprime_inf*PoverK)^(-Kprime_0/Kprime_inf)
PressureValue(PoverK, params) ==
    FMul(FMul(params["K_0"], PoverK),
         FPow(FSub(One, FMul(params["Kprime_inf"], PoverK)),
              FDiv(FNeg(params["Kprime_0"]), params["Kprime_inf"])))

\* RKprime.pressure(temperature, volume, params)
pressure(temperature, vol, params) ==
    LET keys == <<"V_0", "K_0", "Kprime_0", "Kprime_inf">>
        miss == FirstMissing(keys, params)
        reads == ReadUpTo(keys, params)
    IN IF miss # "" THEN {RaisedKeyError(miss, reads, NoSolve)}
       ELSE {IF o.status # "ok" THEN RaisedValueError(reads, o)
             ELSE Returned(PressureValue(F(o.root), params), reads, o) :
             o \in PoverK_from_V(vol, params)}

\* RKprime.isothermal_bulk_modulus(pressure, temperature, volume, params)
isothermal_bulk_modulus(pres, temperature, vol, params) ==
    bulk_modulus(pres, params)

\* RKprime.adiabatic_bulk_modulus(pressure, temperature, volume, params)
adiabatic_bulk_modulus(pres, temperature, vol, params) ==
    bulk_modulus(pres, params)

\* RKprime.shear_modulus(pressure, temperature, volume, params)
RKprime_shear_modulus(pres, temperature, vol, params) ==
    shear_modulus(pres, params)

\* RKprime.heat_capacity_v: return 1.e99
heat_capacity_v(pres, temperature, vol, params) ==
    {Returned(VeryLarge, {}, NoSolve)}

\* RKprime.heat_capacity_p: return 1.e99
heat_capacity_p(pres, temperature, vol, params) ==
    {Returned(VeryLarge, {}, NoSolve)}

\* RKprime.thermal_expansivity: return 0.
thermal_expansivity(pres, temperature, vol, params) ==
    {Returned(F(0), {}, NoSolve)}

\* RKprime.grueneisen_parameter: return 0.
grueneisen_parameter(pres, temperature, vol, params) ==
    {Returned(F(0), {}, NoSolve)}

(* --------------------------- validate_parameters ----------------------- *)

\* if key not in params: params[key] = value
SetDefault(params, key, value) ==
    IF Has(params, key) THEN params ELSE SetItem(params, key, value)

\* Faulty variant of WithDefaults: G_0 defaults to 0. instead of nan.
WithDefaults_zero_G_0(params) ==
    SetDefault(SetDefault(SetDefault(params, "P_0", F(0)), "G_0", F(0)),
               "Gprime_0", NaN)

\* Faulty variant of WithDefaults: the defaults are assigned without the test
\* "if key not in params".
WithDefaults_overwriting(params) ==
    SetItem(SetItem(SetItem(params, "P_0", F(0)), "G_0", NaN),
            "Gprime_0", NaN)

\* The three defaults: P_0 = 0., G_0 = nan, Gprime_0 = nan.
WithDefaults(params) ==
    SetDefault(SetDefault(SetDefault(params, "P_0", F(0)), "G_0", NaN),
               "Gprime_0", NaN)

\* Faulty variant of expected_keys: the keys are checked in another order.
expected_keys_reordered ==
    <<"Kprime_inf", "Kprime_0", "K_0", "V_0", "G_0", "Gprime_0">>

expected_keys == <<"V_0", "K_0", "Kprime_0", "Kprime_inf", "G_0", "Gprime_0">>

\* a <= b (false when either is NaN)
FLe(a, b) == FLt(a, b) \/ (~IsNaN(a) /\ a = b)

\* Faulty variant of Unusual: value <= lo or value >= hi.
Unusual_at_the_bounds(value, lo, hi) == FLe(value, lo) \/ FLe(hi, value)

\* Faulty variant of Unusual: not (lo <= value <= hi), which is true of NaN.
Unusual_not_within(value, lo, hi) == ~(FLe(lo, value) /\ FLe(value, hi))

\* value < lo or value > hi
Unusual(value, lo, hi) == FLt(value, lo) \/ FGt(value, hi)

\* The bounds of the range checks, in the units of the model.
V_0_min == F(Scale \div 100)

V_0_max == F(100 * Scale)

K_0_min == F(Scale \div 100)

K_0_max == F(100 * Scale)

Kprime_0_max == F(10 * Scale)

Kprime_inf_min == F((5 * Scale) \div 3)

G_0_max == F(100 * Scale)

Gprime_0_min == F(-5 * Scale)

Gprime_0_max == F(10 * Scale)

Warn(cond, key) == IF cond THEN <<key>> ELSE <<>>

\* The warnings of the range checks, in the order they are emitted.
RangeWarnings(params) ==
    Warn(FLt(params["P_0"], F(0)), "P_0")
    \o Warn(Unusual(params["V_0"], V_0_min, V_0_max), "V_0")
    \o Warn(Unusual(params["K_0"], K_0_min, K_0_max), "K_0")
    \o Warn(Unusual(params["Kprime_0"], F(0), Kprime_0_max), "Kprime_0")
    \o Warn(Unusual(params["Kprime_inf"], Kprime_inf_min, params["Kprime_0"]),
            "Kprime_inf")
    \o Warn(Unusual(params["G_0"], F(0), G_0_max), "G_0")
    \o Warn(Unusual(params["Gprime_0"], Gprime_0_min, Gprime_0_max),
            "Gprime_0")

\* Faulty variant of validate_parameters: a negative P_0 is warned about and then
\* reset to 0.
validate_parameters_resetting(params) ==
    LET p == WithDefaults(params)
        miss == FirstMissing(expected_keys, p)
    IN IF miss # ""
       THEN [params |-> p, status |-> "KeyError", err |-> miss,
             warnings |-> <<>>]
       ELSE [params |-> IF FLt(p["P_0"], F(0)) THEN SetItem(p, "P_0", F(0))
                        ELSE p,
             status |-> "ok", err |-> "", warnings |-> RangeWarnings(p)]

\* RKprime.validate_parameters(params): the mapping as the call leaves it,
\* how the call ended, and the warnings it emitted.
validate_parameters(params) ==
    LET p == WithDefaults(params)
        miss == FirstMissing(expected_keys, p)
    IN IF miss # ""
       THEN [params |-> p, status |-> "KeyError", err |-> miss,
             warnings |-> <<>>]
       ELSE [params |-> p, status |-> "ok", err |-> "",
             warnings |-> RangeWarnings(p)]

(* ------------------------------ the state ------------------------------ *)

VARIABLES
    callerParams,  \* the caller's parameter mapping, passed to every call
    before,        \* the mapping as the last call found it
    op,            \* the operation called last ("init" before the first call)
    args,          \* its arguments
    result,        \* how it ended: status, the key of a KeyError, the value
    warnings,      \* the warnings it emitted, in order
    reads,         \* the keys of the mapping a property query looked up
    evals,         \* the values of PoverK where it evaluated a residual
    solves,        \* the number of runs of the root finder it made
    PoverK,        \* the PoverK the root-finding wrapper returned to it
    roundTrip      \* for pressure(T2, volume(P, T1, params), params): P and T1

vars == <<callerParams, before, op, args, result, warnings, reads, evals,
          solves, PoverK, roundTrip>>

Args(p, T, v) == [pressure |-> p, temperature |-> T, volume |-> v]

(* ------------------------------- inputs -------------------------------- *)

Pressures == {F(0), F((8 * Scale) \div 10), F(2 * Scale)}

Temperatures == {F(300 * Scale), F(1500 * Scale)}

Volumes == {F(Scale), F((7 * Scale) \div 10)}

\* Arguments of the operations that take pressure, temperature and volume.
QueryArgs ==
    {Args(F(0), F(300 * Scale), F(Scale)),
     Args(F((8 * Scale) \div 10), F(1500 * Scale), F((7 * Scale) \div 10))}

\* The mapping of a choice of values, None standing for an absent key.
Mapping(c) == [key \in {x \in Keys : c[x] # None} |-> c[key]]

Choice(v0, k0, kp0, kpinf, g0, gp0, p0) ==
    [V_0 |-> v0, K_0 |-> k0, Kprime_0 |-> kp0, Kprime_inf |-> kpinf,
     G_0 |-> g0, Gprime_0 |-> gp0, P_0 |-> p0]

\* A usual parameter set: V_0 = 1e-5, K_0 = 1.6e11, Kprime_0 = 4,
\* Kprime_inf = 2, G_0 = 8e10, Gprime_0 = 1.5, P_0 = 0.
Nominal ==
    Choice(F(Scale), F((16 * Scale) \div 10), F(4 * Scale), F(2 * Scale),
           F((8 * Scale) \div 10), F((15 * Scale) \div 10), F(0))

\* Every mapping that holds some of the keys, with the usual values.
PartialMappings == {[key \in S |-> Nominal[key]] : S \in SUBSET Keys}

\* Mappings of the four coefficients of the equation of state.
EosMappings ==
    {Mapping(Choice(F(Scale), F((16 * Scale) \div 10), F(kp0 * Scale),
                    F(kpinf * Scale), None, None, None)) :
     kp0 \in {0, 2, 4, 6}, kpinf \in {2, 3}}

\* Mappings with values inside, on the edge of and outside the usual ranges.
ValidateMappings ==
    {Mapping(Choice(v0, k0, kp0, kpinf, g0, gp0, p0)) :
        v0 \in {None, F(Scale), F(Scale \div 100), F(1), NaN},
        k0 \in {None, F((16 * Scale) \div 10), F(200 * Scale)},
        kp0 \in {None, F(4 * Scale), F(10 * Scale), F(-Scale)},
        kpinf \in {None, F(2 * Scale), F(Scale), F(6 * Scale)},
        g0 \in {None, F((8 * Scale) \div 10), F(-Scale), NaN},
        gp0 \in {None, F((15 * Scale) \div 10), F(11 * Scale)},  \* never NaN
        p0 \in {None, F(0), F(-1)}}

InitCall ==
    /\ op = "init"
    /\ args = Args(None, None, None)
    /\ result = [status |-> "ok", err |-> "", value |-> None]
    /\ warnings = <<>>
    /\ reads = {}
    /\ evals = {}
    /\ solves = 0
    /\ PoverK = None
    /\ roundTrip = None

Init ==
    /\ callerParams \in PartialMappings
    /\ before = callerParams
    /\ InitCall

InitEos ==
    /\ callerParams \in EosMappings
    /\ before = callerParams
    /\ InitCall

InitValidate ==
    /\ callerParams \in ValidateMappings
    /\ before = callerParams
    /\ InitCall

(* ------------------------------- actions ------------------------------- *)

\* A property query that ended as outcome o: the mapping is not written.
Query(name, a, o) ==
    /\ op' = name
    /\ args' = a
    /\ result' = [status |-> o.status, err |-> o.err, value |-> o.value]
    /\ warnings' = <<>>
    /\ reads' = o.reads
    /\ evals' = o.evals
    /\ solves' = o.solves
    /\ PoverK' = o.root
    /\ before' = callerParams
    /\ UNCHANGED callerParams

CallValidateParameters ==
    LET r == validate_parameters(callerParams) IN
    /\ callerParams' = r.params
    /\ before' = callerParams
    /\ op' = "validate_parameters"
    /\ args' = Args(None, None, None)
    /\ result' = [status |-> r.status, err |-> r.err, value |-> None]
    /\ warnings' = r.warnings
    /\ reads' = {}
    /\ evals' = {}
    /\ solves' = 0
    /\ PoverK' = None
    /\ roundTrip' = None

CallVolume ==
    \E p \in Pressures, T \in Temperatures :
        \E o \in volume(p, T, callerParams) :
            /\ Query("volume", Args(p, T, None), o)
            /\ roundTrip' = None

CallPressure ==
    \E T \in Temperatures, v \in Volumes :
        \E o \in pressure(T, v, callerParams) :
            /\ Query("pressure", Args(None, T, v), o)
            /\ roundTrip' = None

\* pressure(T2, V, params) for the volume V that volume(P, T1, params) just
\* returned.
CallPressureOfVolume ==
    /\ op = "volume"
    /\ result.status = "ok"
    /\ \E T \in Temperatures :
        \E o \in pressure(T, result.value, callerParams) :
            /\ Query("pressure", Args(None, T, result.value), o)
            /\ roundTrip' = [pressure |-> args.pressure,
                             temperature |-> args.temperature]

CallIsothermalBulkModulus ==
    \E a \in QueryArgs :
        \E o \in isothermal_bulk_modulus(a.pressure, a.temperature, a.volume,
                                         callerParams) :
            /\ Query("isothermal_bulk_modulus", a, o)
            /\ roundTrip' = None

CallAdiabaticBulkModulus ==
    \E a \in QueryArgs :
        \E o \in adiabatic_bulk_modulus(a.pressure, a.temperature, a.volume,
                                        callerParams) :
            /\ Query("adiabatic_bulk_modulus", a, o)
            /\ roundTrip' = None

CallShearModulus ==
    \E a \in QueryArgs :
        \E o \in RKprime_shear_modulus(a.pressure, a.temperature, a.volume,
                                       callerParams) :
            /\ Query("shear_modulus", a, o)
            /\ roundTrip' = None

CallHeatCapacityV ==
    \E a \in QueryArgs :
        \E o \in heat_capacity_v(a.pressure, a.temperature, a.volume,
                                 callerParams) :
            /\ Query("heat_capacity_v", a, o)
            /\ roundTrip' = None

CallHeatCapacityP ==
    \E a \in QueryArgs :
        \E o \in heat_capacity_p(a.pressure, a.temperature, a.volume,
                                 callerParams) :
            /\ Query("heat_capacity_p", a, o)
            /\ roundTrip' = None

CallThermalExpansivity ==
    \E a \in QueryArgs :
        \E o \in thermal_expansivity(a.pressure, a.temperature, a.volume,
                                     callerParams) :
            /\ Query("thermal_expansivity", a, o)
            /\ roundTrip' = None

CallGrueneisenParameter ==
    \E a \in QueryArgs :
        \E o \in grueneisen_parameter(a.pressure, a.temperature, a.volume,
                                      callerParams) :
            /\ Query("grueneisen_parameter", a, o)
            /\ roundTrip' = None

Next ==
    \/ CallValidateParameters
    \/ CallVolume
    \/ CallPressure
    \/ CallPressureOfVolume
    \/ CallIsothermalBulkModulus
    \/ CallAdiabaticBulkModulus
    \/ CallShearModulus
    \/ CallHeatCapacityV
    \/ CallHeatCapacityP
    \/ CallThermalExpansivity
    \/ CallGrueneisenParameter

\* Any sequence of calls on one mapping.
Spec == Init /\ [][Next]_vars

NextEos ==
    \/ CallVolume
    \/ CallPressure
    \/ CallPressureOfVolume
    \/ CallIsothermalBulkModulus
    \/ CallAdiabaticBulkModulus

\* The operations that run the root finder, on mappings of the four
\* coefficients.
SpecEos == InitEos /\ [][NextEos]_vars

NextValidate == CallValidateParameters

\* Repeated validation of one mapping.
SpecValidate == InitValidate /\ [][NextValidate]_vars

(* ======================= properties of validation ====================== *)

\* The keys that have no default.
Coefficients == {"V_0", "K_0", "Kprime_0", "Kprime_inf"}

Defaulted == {"P_0", "G_0", "Gprime_0"}

Validated == op = "validate_parameters"

Warned(key) == \E i \in DOMAIN warnings : warnings[i] = key

\* C1: validate_parameters of a mapping that holds V_0, K_0, Kprime_0 and
\* Kprime_inf returns without raising; afterwards P_0 is 0 if it was absent,
\* G_0 and Gprime_0 are NaN if they were absent, and a P_0, G_0 or Gprime_0
\* that was present is kept as supplied.
C1_ValidationDefaults ==
    (Validated /\ Coefficients \subseteq DOMAIN before) =>
        /\ result.status = "ok"
        /\ \A key \in Defaulted :
            /\ key \in DOMAIN callerParams
            /\ callerParams[key] =
                   IF key \in DOMAIN before THEN before[key]
                   ELSE IF key = "P_0" THEN F(0) ELSE NaN

\* C1, witness: the four coefficients alone were validated; the call
\* returned, P_0 is 0 and G_0 and Gprime_0 are NaN.
C1_Witness ==
    /\ Validated
    /\ DOMAIN before = Coefficients
    /\ result.status = "ok"
    /\ callerParams["P_0"] = F(0)
    /\ IsNaN(callerParams["G_0"])
    /\ IsNaN(callerParams["Gprime_0"])

\* The first of V_0, K_0, Kprime_0, Kprime_inf that the mapping m lacks.
FirstAbsentCoefficient(m) ==
    CASE "V_0" \notin DOMAIN m -> "V_0"
      [] "K_0" \notin DOMAIN m -> "K_0"
      [] "Kprime_0" \notin DOMAIN m -> "Kprime_0"
      [] OTHER -> "Kprime_inf"

\* C2: when one of V_0, K_0, Kprime_0, Kprime_inf is absent,
\* validate_parameters fails with a missing-parameter error naming the first
\* absent one in that order, before any range warning; with all four present
\* it never fails this way.
C2_MissingKey ==
    Validated =>
        IF Coefficients \subseteq DOMAIN before
        THEN result.status # "KeyError"
        ELSE /\ result.status = "KeyError"
             /\ result.err = FirstAbsentCoefficient(before)
             /\ result.err \notin DOMAIN before
             /\ warnings = <<>>

\* C2, witness: V_0 was present, K_0 and Kprime_inf were absent, and the call
\* failed naming K_0.
C2_Witness ==
    /\ Validated
    /\ "V_0" \in DOMAIN before
    /\ "K_0" \notin DOMAIN before
    /\ "Kprime_inf" \notin DOMAIN before
    /\ result.status = "KeyError"
    /\ result.err = "K_0"

\* lo <= value <= hi, for numbers (NaN is within no range).
Within(value, lo, hi) ==
    /\ IsFin(value) /\ IsFin(lo) /\ IsFin(hi)
    /\ lo.v <= value.v
    /\ value.v <= hi.v

\* The parameters with a range, and whether the value m gives one lies in
\* its expected range.
Ranged == {"V_0", "K_0", "Kprime_0", "Kprime_inf", "G_0", "Gprime_0"}

InRange(key, m) ==
    CASE key = "V_0" -> Within(m[key], V_0_min, V_0_max)
      [] key = "K_0" -> Within(m[key], K_0_min, K_0_max)
      [] key = "Kprime_0" -> Within(m[key], F(0), Kprime_0_max)
      [] key = "Kprime_inf" -> Within(m[key], Kprime_inf_min, m["Kprime_0"])
      [] key = "G_0" -> Within(m[key], F(0), G_0_max)
      [] key = "Gprime_0" -> Within(m[key], Gprime_0_min, Gprime_0_max)

NegativeP_0(m) == IsFin(m["P_0"]) /\ m["P_0"].v < 0

\* The call validated a mapping that held every required key.
ValidatedComplete == Validated /\ Ranged \subseteq DOMAIN before

\* No value of the mapping was changed or removed by the call.
ValuesKept ==
    \A key \in DOMAIN before :
        key \in DOMAIN callerParams /\ callerParams[key] = before[key]

C4_Idempotent ==
    [][(Validated /\ result.status = "ok" /\ op' = "validate_parameters") =>
           /\ result'.status = "ok"
           /\ callerParams' = callerParams
           /\ warnings' = warnings]_vars

\* C4, witness: a second call has returned with warnings.  (No initial
\* mapping holds a NaN Gprime_0, so the mapping the call found came out of an
\* earlier call.)
C4_Witness ==
    /\ Validated
    /\ result.status = "ok"
    /\ "Gprime_0" \in DOMAIN before
    /\ IsNaN(before["Gprime_0"])
    /\ before = callerParams
    /\ warnings # <<>>

\* G_0 and Gprime_0 are NaN and every other value is in its range.
OthersInRange ==
    /\ \A key \in {"G_0", "Gprime_0"} : IsNaN(callerParams[key])
    /\ \A key \in Coefficients : InRange(key, callerParams)
    /\ ~NegativeP_0(callerParams)

\* C10: a G_0 or Gprime_0 that validate_parameters fills in with NaN draws no
\* warning, in that call or in a later one; so a mapping without G_0 and
\* Gprime_0 whose other values are in range validates without any warning.
C10_NaNDefaultsSilent ==
    (Validated /\ result.status = "ok") =>
        /\ \A key \in {"G_0", "Gprime_0"} :
               (key \notin DOMAIN before \/ IsNaN(before[key])) =>
                   (IsNaN(callerParams[key]) /\ ~Warned(key))
        /\ OthersInRange => warnings = <<>>

\* C10, witness: a mapping without G_0 and Gprime_0 was validated, both are
\* NaN now, and no warning was emitted.
C10_Witness ==
    /\ Validated
    /\ result.status = "ok"
    /\ "G_0" \notin DOMAIN before
    /\ "Gprime_0" \notin DOMAIN before
    /\ IsNaN(callerParams["G_0"])
    /\ IsNaN(callerParams["Gprime_0"])
    /\ warnings = <<>>

(* ===================== properties of the whole model =================== *)

\* A step leaves every value of the mapping as it is, adds no key but P_0,
\* G_0 and Gprime_0, and adds those only in validate_parameters (which adds
\* them all, however it ends); and the same call on the same mapping ends the
\* same way.
FrameStep ==
    /\ \A key \in DOMAIN callerParams :
           key \in DOMAIN callerParams' /\ callerParams'[key] = callerParams[key]
    /\ DOMAIN callerParams' \subseteq (DOMAIN callerParams) \cup Defaulted
    /\ (op' # "validate_parameters") => (callerParams' = callerParams)
    /\ (op' = "validate_parameters") => (Defaulted \subseteq DOMAIN callerParams')
    /\ (op' = op /\ args' = args /\ callerParams' = callerParams
           /\ roundTrip' = roundTrip)
          => (result' = result /\ PoverK' = PoverK)

\* C5: over any sequence of calls the mapping changes only by
\* validate_parameters adding P_0, G_0 and Gprime_0 when absent (whether it
\* returns or fails): no call removes a key or changes a present value, the
\* property queries leave the mapping unchanged, and a query repeated on the
\* same arguments gives the same result.
C5_Frame == [][FrameStep]_vars

\* C5, witness: validate_parameters failed with a missing-key error and had
\* added the three defaults all the same.
C5_Witness ==
    /\ Validated
    /\ result.status = "KeyError"
    /\ Defaulted \cap DOMAIN before = {}
    /\ Defaulted \subseteq DOMAIN callerParams
    /\ ValuesKept

ZeroOps == {"shear_modulus", "thermal_expansivity", "grueneisen_parameter"}

VeryLargeOps == {"heat_capacity_v", "heat_capacity_p"}

\* C6: whatever the arguments and the mapping, shear_modulus,
\* thermal_expansivity and grueneisen_parameter return 0 and heat_capacity_v
\* and heat_capacity_p return 1e99, without reading the mapping, running the
\* root finder or failing.
C6_ConstantProperties ==
    (op \in ZeroOps \cup VeryLargeOps) =>
        /\ result.status = "ok"
        /\ result.value = IF op \in ZeroOps THEN F(0) ELSE VeryLarge
        /\ reads = {}
        /\ solves = 0
        /\ evals = {}
        /\ PoverK = None

\* C6, witness: shear_modulus was called with an empty mapping and
\* returned 0.
C6_Witness ==
    /\ op = "shear_modulus"
    /\ DOMAIN callerParams = {}
    /\ result.status = "ok"
    /\ result.value = F(0)

(* ===================== properties of the root finding ================== *)

\* K_0 > 0 and 5/3 <= Kprime_inf <= Kprime_0.
ValidParams(m) ==
    /\ Coefficients \subseteq DOMAIN m
    /\ IsFin(m["K_0"]) /\ m["K_0"].v > 0
    /\ Within(m["Kprime_inf"], Kprime_inf_min, m["Kprime_0"])

\* value is a number within the round-trip tolerance of the pressure p.
Close(value, p) ==
    /\ IsFin(value)
    /\ RoundTripTol * Abs(value.v - p.v) <= p.v + Scale \div 10

\* The call was pressure(T2, volume(P, T1, params), params) for a valid
\* parameter set and a pressure P >= 0.
RoundTripCall ==
    /\ op = "pressure"
    /\ roundTrip # None
    /\ ValidParams(callerParams)
    /\ roundTrip.pressure.v >= 0

\* C7, as claimed: for every valid parameter set, every pressure >= 0 and any
\* two temperatures, pressure(T2, volume(P, T1, params), params) returns P
\* within tolerance.
C7_RoundTrip ==
    RoundTripCall => (result.status = "ok" /\ Close(result.value, roundTrip.pressure))

\* Whenever the volume-driven root finder does find a root, the round trip
\* gives the pressure back: what fails in C7 is the root finder's bracket.
RoundTripWhenSolved ==
    (RoundTripCall /\ result.status = "ok") =>
        Close(result.value, roundTrip.pressure)

\* C8, as claimed: a PoverK that _PoverK_from_P or _PoverK_from_V returns is
\* at least -1 and strictly less than 1/Kprime_inf.
C8_RootBelowBoundary ==
    (PoverK # None) =>
        (BracketLo <= PoverK.v /\ PoverK.v < BracketHi(callerParams))

====
